---- MODULE Spec2Model ----
(***************************************************************************)
(* State-machine model of the chess session server, src/server/            *)
(* socketServer.js (the same logic is repeated in                          *)
(* src/src/server/websocketProvider.tsx, class Game / class GameServer).   *)
(*                                                                         *)
(* One action per socket.io handler, per timer callback and per ticker     *)
(* pass.  Node runs every handler to completion, so each handler is one    *)
(* atomic step.  Date.now() is the variable now, which AdvanceTime moves   *)
(* forward between handlers.                                               *)
(***************************************************************************)
EXTENDS Integers, Sequences, FiniteSets, TLC

\* ---------------------------------------------------------------- bounds
\* granularity of the wall clock in ms: Date.now() advances in steps of it
TimeStep == 500000
\* number of TimeSteps the wall clock may advance
MaxTicks == 2
\* cap on the length of a session's move log
MaxMoves == 2

\* ------------------------------------------------------ program constants
InitialTime == 15 * 60 * 1000
GraceMs == 30000
DefaultRating == 1500
DefaultRange == 200

\* --------------------------------------------------------- input domains
\* socket ids; a socket id is never reused after its connection closed
Ids == {"s1", "s2", "s3", "s4"}
\* the socket that, next to the two competitors of the first session, looks
\* on: it is the one that registers and spectates
Onlookers == {"s3"}
\* the sockets whose connection closes: one competitor of the first session
\* (black) and the onlooker
Leavers == {"s2", "s3"}
\* the connection a client opens after its first one has closed: s4 is the
\* second connection of the client that played black as s2
Returning == {"s4"}
\* uuids handed out by uuidv4()
GameIds == {"g1"}
\* the values of playerData.rating (0 is falsy, like a missing rating)
RatingInputs == {0}
\* the ratings sent with a register that follows an earlier one
ReRatings == {0, 1800}
\* the preferences sent with findMatch: <<>> is {} (no ratingRange) and
\* <<r>> is {ratingRange: r}; no two ratings are within a range of -1
RangeInputs == {<<>>, <<0>>, <<100>>, <<-1>>}
\* the <<fromRow, fromCol, toRow, toCol>> sent with makeMove.  On the initial
\* board (7,0) is a white rook, (6,0) a white pawn, (1,0) a black pawn and
\* (4,0) and (3,0) are empty; the last four have one coordinate outside
\* [0,7] each
MoveInputs ==
    {<<6, 0, 4, 0>>, <<7, 0, 6, 0>>, <<1, 0, 3, 0>>, <<4, 0, 3, 0>>,
     <<8, 0, 4, 0>>, <<6, 8, 4, 0>>, <<6, 0, -1, 0>>, <<6, 0, 4, -1>>}

\* makeMove inputs for the board: a pawn advance and a rook capture for each
\* side, a pawn "moved" onto its own square for each side, a move from an
\* empty square and a rook onto a pawn of its own side
BoardInputs ==
    {<<6, 0, 4, 0>>, <<7, 0, 1, 0>>, <<1, 0, 3, 0>>, <<0, 0, 6, 0>>,
     <<6, 0, 6, 0>>, <<1, 0, 1, 0>>, <<4, 0, 3, 0>>, <<7, 0, 6, 0>>}

NULL == "null"
WhitePieces == {"K", "Q", "R", "B", "N", "P"}
BlackPieces == {"k", "q", "r", "b", "n", "p"}
Terminal == {"draw", "resigned", "time_out", "disconnected"}

VARIABLES
    sockets,         \* socket id -> "new" | "open" | "closed"
    players,         \* the players Map: socket id -> player object
    waitingPlayers,  \* the waitingPlayers array of player objects
    game,            \* every Game object ever constructed, by id
    games,           \* the keys of the games Map, in insertion order
    timers,          \* pending setTimeout callbacks of the disconnect handler
    now,             \* Date.now()
    outbox,          \* the events emitted by the last step, in order
    last             \* the intent or callback the last step has run

vars == <<sockets, players, waitingPlayers, game, games, timers, now, outbox, last>>

\* ------------------------------------------------------------- helpers
Max(a, b) == IF a >= b THEN a ELSE b
Abs(a) == IF a >= 0 THEN a ELSE 0 - a

Other_stuck(side) == side

Other(side) == IF side = "white" THEN "black" ELSE "white"

\* an emitted event: its name, the set of socket ids it is delivered to, the
\* game id it is about ("-" if none) and the result and gameState.status
\* fields of its payload ("-" if absent); position and estimatedWait are
\* the payload of waitingForMatch and move is the index in the move log of
\* the move a moveMade carries (0 elsewhere)
Event(ev, to, gid, result, status) ==
    [ev |-> ev, to |-> to, gid |-> gid, result |-> result, status |-> status,
     position |-> 0, estimatedWait |-> 0, move |-> 0]

getInitialBoard ==
    LET back == <<"r", "n", "b", "q", "k", "b", "n", "r">>
        Back == <<"R", "N", "B", "Q", "K", "B", "N", "R">>
    IN  [sq \in (0..7) \X (0..7) |->
            CASE sq[1] = 0 -> back[sq[2] + 1]
              [] sq[1] = 1 -> "p"
              [] sq[1] = 6 -> "P"
              [] sq[1] = 7 -> Back[sq[2] + 1]
              [] OTHER -> NULL]

\* new Game(id, white, black) at time t
NewGame(white, black, t) ==
    [white |-> white, black |-> black, board |-> getInitialBoard,
     currentPlayer |-> "white", moves |-> <<>>, status |-> "playing",
     whiteTime |-> InitialTime, blackTime |-> InitialTime,
     lastMoveTime |-> t, spectators |-> {}]

\* ------------------------------------------------------------ class Game
InBounds(fromRow, fromCol, toRow, toCol) ==
    ~(fromRow < 0 \/ fromRow > 7 \/ fromCol < 0 \/ fromCol > 7 \/
      toRow < 0 \/ toRow > 7 \/ toCol < 0 \/ toCol > 7)

makeMoveAccepts_spectators(gm, fromRow, fromCol, toRow, toCol, playerId) ==
    LET isWhitePlayer == gm.white.id = playerId \/ playerId \in gm.spectators
        isBlackPlayer == gm.black.id = playerId \/ playerId \in gm.spectators
        expectedPlayer == gm.currentPlayer
    IN  IF ~isWhitePlayer /\ ~isBlackPlayer THEN FALSE
        ELSE IF (expectedPlayer = "white" /\ ~isWhitePlayer) \/
                (expectedPlayer = "black" /\ ~isBlackPlayer) THEN FALSE
        ELSE IF ~InBounds(fromRow, fromCol, toRow, toCol) THEN FALSE
        ELSE LET piece == gm.board[<<fromRow, fromCol>>]
                 isWhitePiece == piece \in WhitePieces
                 isBlackPiece == piece \in BlackPieces
             IN  IF piece = NULL THEN FALSE
                 ELSE IF (gm.currentPlayer = "white" /\ ~isWhitePiece) \/
                         (gm.currentPlayer = "black" /\ ~isBlackPiece) THEN FALSE
                 ELSE TRUE

\* Game.makeMove, the validation part: TRUE iff no early return is taken
makeMoveAccepts(gm, fromRow, fromCol, toRow, toCol, playerId) ==
    LET isWhitePlayer == gm.white.id = playerId
        isBlackPlayer == gm.black.id = playerId
        expectedPlayer == gm.currentPlayer
    IN  IF ~isWhitePlayer /\ ~isBlackPlayer THEN FALSE
        ELSE IF (expectedPlayer = "white" /\ ~isWhitePlayer) \/
                (expectedPlayer = "black" /\ ~isBlackPlayer) THEN FALSE
        ELSE IF ~InBounds(fromRow, fromCol, toRow, toCol) THEN FALSE
        ELSE LET piece == gm.board[<<fromRow, fromCol>>]
                 isWhitePiece == piece \in WhitePieces
                 isBlackPiece == piece \in BlackPieces
             IN  IF piece = NULL THEN FALSE
                 ELSE IF (gm.currentPlayer = "white" /\ ~isWhitePiece) \/
                         (gm.currentPlayer = "black" /\ ~isBlackPiece) THEN FALSE
                 ELSE TRUE

makeMoveClock_afterFlip(gm, t) ==
    LET timeDiff == t - gm.lastMoveTime
    IN  IF gm.currentPlayer = "white"
        THEN [gm EXCEPT !.blackTime = @ - timeDiff, !.lastMoveTime = t]
        ELSE [gm EXCEPT !.whiteTime = @ - timeDiff, !.lastMoveTime = t]

\* Game.makeMove, "Update time": the mover is debited, without a floor
makeMoveClock(gm, t) ==
    LET timeDiff == t - gm.lastMoveTime
    IN  IF gm.currentPlayer = "white"
        THEN [gm EXCEPT !.whiteTime = @ - timeDiff, !.lastMoveTime = t]
        ELSE [gm EXCEPT !.blackTime = @ - timeDiff, !.lastMoveTime = t]

\* the Move record of an accepted move
MoveRecord(gm, fromRow, fromCol, toRow, toCol, t) ==
    [from |-> <<fromRow, fromCol>>, to |-> <<toRow, toCol>>,
     piece |-> gm.board[<<fromRow, fromCol>>],
     captured |-> gm.board[<<toRow, toCol>>],
     timestamp |-> t, player |-> gm.currentPlayer]

\* Game.makeMove, "Make the move": destination written first, origin cleared after
makeMoveBoard(board, fromRow, fromCol, toRow, toCol) ==
    LET piece == board[<<fromRow, fromCol>>]
        placed == [board EXCEPT ![<<toRow, toCol>>] = piece]
    IN  [placed EXCEPT ![<<fromRow, fromCol>>] = NULL]

makeMove_noFlipOnCapture(gm, fromRow, fromCol, toRow, toCol, t) ==
    LET timed == makeMoveClock(gm, t)
        move == MoveRecord(gm, fromRow, fromCol, toRow, toCol, t)
    IN  [timed EXCEPT
            !.board = makeMoveBoard(gm.board, fromRow, fromCol, toRow, toCol),
            !.moves = Append(@, move),
            !.currentPlayer = IF move.captured = NULL
                              THEN Other(gm.currentPlayer) ELSE gm.currentPlayer]

\* Game.makeMove on an accepted move at time t: the mutated Game
makeMove(gm, fromRow, fromCol, toRow, toCol, t) ==
    LET timed == makeMoveClock(gm, t)
        move == MoveRecord(gm, fromRow, fromCol, toRow, toCol, t)
    IN  [timed EXCEPT
            !.board = makeMoveBoard(gm.board, fromRow, fromCol, toRow, toCol),
            !.moves = Append(@, move),
            !.currentPlayer = Other(gm.currentPlayer)]

Room_competitors(g) ==
    {s \in Ids : /\ sockets[s] = "open"
                 /\ s \in {game[g].white.id, game[g].black.id}}

\* the competitors and spectators of a session whose socket is still open:
\* the members of the socket.io room named by the game id
Room(g) ==
    {s \in Ids : /\ sockets[s] = "open"
                 /\ s \in {game[g].white.id, game[g].black.id} \cup game[g].spectators}

\* --------------------------------------------------- registries and rooms
InGames(g) == \E i \in 1..Len(games) : games[i] = g

RemoveAt_none(seq, i) == seq

\* Array.splice(i, 1)
RemoveAt(seq, i) == SubSeq(seq, 1, i - 1) \o SubSeq(seq, i + 1, Len(seq))

\* Array.findIndex: the first index satisfying Test, 0 for "not found" (-1)
FindIndex(seq, Test(_)) ==
    IF \E i \in 1..Len(seq) : Test(seq[i])
    THEN CHOOSE i \in 1..Len(seq) :
            Test(seq[i]) /\ \A j \in 1..(i - 1) : ~Test(seq[j])
    ELSE 0

Dequeue_others(queue, id) ==
    LET Mine(t) == t.id = id
    IN  SelectSeq(queue, Mine)

Dequeue_keep(queue, id) == queue

\* waitingPlayers.splice(findIndex(p => p.id === id), 1) when found
Dequeue(queue, id) ==
    LET HasId(p) == p.id = id
        i == FindIndex(queue, HasId)
    IN  IF i > 0 THEN RemoveAt(queue, i) ELSE queue

OpenSockets == {s \in Ids : sockets[s] = "open"}

IsCompetitor(gm, s) == gm.white.id = s \/ gm.black.id = s

\* the sockets a player object's socket.emit reaches
SocketOf(player) == {player.id} \cap OpenSockets

\* uuidv4(): an id no game was constructed with
FreshGameId == CHOOSE g \in GameIds : g \notin DOMAIN game

\* the handler or callback run by a step: its name, the socket it serves
\* and the game id it was sent ("-" where there is none)
Ran(op, s, g) == [op |-> op, id |-> s, gid |-> g]

\* --------------------------------------------------------------- handlers
\* io.on('connection'): the handlers of the socket are installed
Connect(s) ==
    /\ last' = Ran("connect", s, "-")
    /\ sockets[s] = "new"
    /\ sockets' = [sockets EXCEPT ![s] = "open"]
    /\ outbox' = <<>>
    /\ UNCHANGED <<players, waitingPlayers, game, games, timers, now>>

\* socket.on('register')
Register(s, rating) ==
    /\ last' = Ran("register", s, "-")
    /\ sockets[s] = "open"
    /\ LET player == [id |-> s,
                      rating |-> IF rating = 0 THEN DefaultRating ELSE rating]
       IN  players' = [x \in DOMAIN players \cup {s} |->
                          IF x = s THEN player ELSE players[x]]
    /\ outbox' = <<Event("registered", {s}, "-", "-", "-"),
                   Event("gamesList", {s}, "-", "-", "-")>>
    /\ UNCHANGED <<sockets, waitingPlayers, game, games, timers, now>>

\* preferences.ratingRange || 200: a missing ratingRange and a ratingRange
\* of 0 are both falsy
RatingRange(preferences) ==
    IF preferences = <<>> THEN DefaultRange
    ELSE IF preferences[1] = 0 THEN DefaultRange
    ELSE preferences[1]

MatchIndex_closest(queue, player, ratingRange) ==
    LET Eligible(w) == Abs(w.rating - player.rating) <= ratingRange
        Closest(w) ==
            /\ Eligible(w)
            /\ \A i \in 1..Len(queue) :
                  Eligible(queue[i]) =>
                      Abs(w.rating - player.rating) <= Abs(queue[i].rating - player.rating)
    IN  FindIndex(queue, Closest)

\* waitingPlayers.findIndex(ratingDiff <= ratingRange): the first eligible
\* ticket in queue order, 0 for "not found"
MatchIndex(queue, player, ratingRange) ==
    LET Eligible(w) == Abs(w.rating - player.rating) <= ratingRange
    IN  FindIndex(queue, Eligible)

FindMatch_zeroBased(s, preferences, isPlayerWhite) ==
    /\ last' = Ran("findMatch", s, "-")
    /\ sockets[s] = "open"
    /\ IF s \notin DOMAIN players
       THEN /\ outbox' = <<>>
            /\ UNCHANGED <<waitingPlayers, game, games>>
       ELSE LET player == players[s]
                queue == Dequeue(waitingPlayers, s)
                ratingRange == RatingRange(preferences)
                matchIndex == MatchIndex(queue, player, ratingRange)
            IN  IF matchIndex > 0
                THEN LET opponent == queue[matchIndex]
                         white == IF isPlayerWhite THEN player ELSE opponent
                         black == IF isPlayerWhite THEN opponent ELSE player
                         gameId == FreshGameId
                     IN  /\ GameIds \ DOMAIN game # {}
                         /\ waitingPlayers' = RemoveAt(queue, matchIndex)
                         /\ game' = [g \in DOMAIN game \cup {gameId} |->
                                        IF g = gameId THEN NewGame(white, black, now)
                                        ELSE game[g]]
                         /\ games' = Append(games, gameId)
                         /\ outbox' =
                              <<Event("gameFound", SocketOf(white), gameId, "white", "playing"),
                                Event("gameFound", SocketOf(black), gameId, "black", "playing"),
                                Event("gameCreated", OpenSockets, gameId, "-", "playing")>>
                ELSE /\ waitingPlayers' = Append(queue, player)
                     /\ outbox' = <<[Event("waitingForMatch", {s}, "-", "-", "-")
                                        EXCEPT !.position = Len(queue),
                                               !.estimatedWait = Len(queue) * 30]>>
                     /\ UNCHANGED <<game, games>>
    /\ UNCHANGED <<sockets, players, timers, now>>

\* socket.on('findMatch')
FindMatch(s, preferences, isPlayerWhite) ==
    /\ last' = Ran("findMatch", s, "-")
    /\ sockets[s] = "open"
    /\ IF s \notin DOMAIN players
       THEN /\ outbox' = <<>>
            /\ UNCHANGED <<waitingPlayers, game, games>>
       ELSE LET player == players[s]
                queue == Dequeue(waitingPlayers, s)
                ratingRange == RatingRange(preferences)
                matchIndex == MatchIndex(queue, player, ratingRange)
            IN  IF matchIndex > 0
                THEN LET opponent == queue[matchIndex]
                         white == IF isPlayerWhite THEN player ELSE opponent
                         black == IF isPlayerWhite THEN opponent ELSE player
                         gameId == FreshGameId
                     IN  /\ GameIds \ DOMAIN game # {}
                         /\ waitingPlayers' = RemoveAt(queue, matchIndex)
                         /\ game' = [g \in DOMAIN game \cup {gameId} |->
                                        IF g = gameId THEN NewGame(white, black, now)
                                        ELSE game[g]]
                         /\ games' = Append(games, gameId)
                         /\ outbox' =
                              <<Event("gameFound", SocketOf(white), gameId, "white", "playing"),
                                Event("gameFound", SocketOf(black), gameId, "black", "playing"),
                                Event("gameCreated", OpenSockets, gameId, "-", "playing")>>
                ELSE /\ waitingPlayers' = Append(queue, player)
                     /\ outbox' = <<[Event("waitingForMatch", {s}, "-", "-", "-")
                                        EXCEPT !.position = Len(queue) + 1,
                                               !.estimatedWait = (Len(queue) + 1) * 30]>>
                     /\ UNCHANGED <<game, games>>
    /\ UNCHANGED <<sockets, players, timers, now>>

MoveTimeOut_clearsLog(gm) ==
    IF gm.whiteTime <= 0 \/ gm.blackTime <= 0
    THEN [gm EXCEPT !.status = "time_out", !.moves = <<>>]
    ELSE gm

\* the "Check for game end conditions" part of the makeMove handler
MoveTimeOut(gm) ==
    IF gm.whiteTime <= 0 \/ gm.blackTime <= 0
    THEN [gm EXCEPT !.status = "time_out"]
    ELSE gm

MoveTimeOutEvents(g, gm, room) ==
    IF gm.whiteTime <= 0
    THEN <<Event("gameEnded", room, g, "black_wins", "time_out")>>
    ELSE IF gm.blackTime <= 0
    THEN <<Event("gameEnded", room, g, "white_wins", "time_out")>>
    ELSE <<>>

\* socket.emit('moveError', ...): the reply to a rejected makeMove
MoveError_toAll(s) == <<Event("moveError", OpenSockets, "-", "-", "-")>>

MoveError(s) == <<Event("moveError", {s}, "-", "-", "-")>>

\* socket.on('makeMove')
MakeMove(s, g, fromRow, fromCol, toRow, toCol) ==
    /\ last' = Ran("makeMove", s, g)
    /\ sockets[s] = "open"
    /\ IF ~InGames(g) \/ s \notin DOMAIN players
       THEN /\ outbox' = MoveError(s)
            /\ UNCHANGED game
       ELSE IF ~makeMoveAccepts(game[g], fromRow, fromCol, toRow, toCol, s)
       THEN /\ outbox' = MoveError(s)
            /\ UNCHANGED game
       ELSE LET moved == makeMove(game[g], fromRow, fromCol, toRow, toCol, now)
            IN  /\ Len(game[g].moves) < MaxMoves
                /\ game' = [game EXCEPT ![g] = MoveTimeOut(moved)]
                /\ outbox' = <<[Event("moveMade", Room(g), g, "-", game[g].status)
                                    EXCEPT !.move = Len(moved.moves)]>>
                                \o MoveTimeOutEvents(g, moved, Room(g))
    /\ UNCHANGED <<sockets, players, waitingPlayers, games, timers, now>>

\* socket.on('spectateGame')
SpectateGame(s, g) ==
    /\ last' = Ran("spectateGame", s, g)
    /\ sockets[s] = "open"
    /\ IF ~InGames(g)
       THEN /\ outbox' = <<Event("spectateError", {s}, "-", "-", "-")>>
            /\ UNCHANGED game
       ELSE /\ game' = [game EXCEPT ![g].spectators = @ \cup {s}]
            /\ outbox' = <<Event("spectatingStarted", {s}, g, "-", game[g].status)>>
    /\ UNCHANGED <<sockets, players, waitingPlayers, games, timers, now>>

Resign_resignerWins(s, g) ==
    /\ last' = Ran("resign", s, g)
    /\ sockets[s] = "open"
    /\ IF ~InGames(g) \/ s \notin DOMAIN players
       THEN outbox' = <<>> /\ UNCHANGED game
       ELSE LET isWhite == game[g].white.id = s
                isBlack == game[g].black.id = s
            IN  IF ~isWhite /\ ~isBlack
                THEN outbox' = <<>> /\ UNCHANGED game
                ELSE /\ game' = [game EXCEPT ![g].status = "resigned"]
                     /\ outbox' = <<Event("gameEnded", Room(g), g,
                                          IF isWhite THEN "white_wins" ELSE "black_wins",
                                          "resigned")>>
    /\ UNCHANGED <<sockets, players, waitingPlayers, games, timers, now>>

\* socket.on('resign')
Resign(s, g) ==
    /\ last' = Ran("resign", s, g)
    /\ sockets[s] = "open"
    /\ IF ~InGames(g) \/ s \notin DOMAIN players
       THEN outbox' = <<>> /\ UNCHANGED game
       ELSE LET isWhite == game[g].white.id = s
                isBlack == game[g].black.id = s
            IN  IF ~isWhite /\ ~isBlack
                THEN outbox' = <<>> /\ UNCHANGED game
                ELSE /\ game' = [game EXCEPT ![g].status = "resigned"]
                     /\ outbox' = <<Event("gameEnded", Room(g), g,
                                          IF isWhite THEN "black_wins" ELSE "white_wins",
                                          "resigned")>>
    /\ UNCHANGED <<sockets, players, waitingPlayers, games, timers, now>>

\* socket.on('offerDraw')
OfferDraw(s, g) ==
    /\ last' = Ran("offerDraw", s, g)
    /\ sockets[s] = "open"
    /\ IF ~InGames(g) \/ s \notin DOMAIN players
       THEN outbox' = <<>>
       ELSE LET isWhite == game[g].white.id = s
                opponent == IF isWhite THEN game[g].black ELSE game[g].white
            IN  outbox' = <<Event("drawOffered", SocketOf(opponent), g, "-", "-")>>
    /\ UNCHANGED <<sockets, players, waitingPlayers, game, games, timers, now>>

\* socket.on('acceptDraw')
AcceptDraw(s, g) ==
    /\ last' = Ran("acceptDraw", s, g)
    /\ sockets[s] = "open"
    /\ IF ~InGames(g)
       THEN outbox' = <<>> /\ UNCHANGED game
       ELSE /\ game' = [game EXCEPT ![g].status = "draw"]
            /\ outbox' = <<Event("gameEnded", Room(g), g, "draw", "draw")>>
    /\ UNCHANGED <<sockets, players, waitingPlayers, games, timers, now>>

\* the games of the Map, in iteration order, that satisfy Test
GamesWhere(Test(_)) == SelectSeq(games, Test)

RemoveSpectator_unlessCompetitor(gm, s) ==
    IF IsCompetitor(gm, s) THEN gm ELSE [gm EXCEPT !.spectators = @ \ {s}]

\* game.spectators.delete(socket.id), run for every game of the Map
RemoveSpectator(gm, s) == [gm EXCEPT !.spectators = @ \ {s}]

Disconnect_keepsTicket(s) ==
    /\ last' = Ran("disconnect", s, "-")
    /\ sockets[s] = "open"
    /\ sockets' = [sockets EXCEPT ![s] = "closed"]
    /\ waitingPlayers' = waitingPlayers
    /\ LET Mine(g) == IsCompetitor(game[g], s)
           mine == GamesWhere(Mine)
       IN  /\ outbox' = IF s \in DOMAIN players
                        THEN [i \in 1..Len(mine) |->
                                Event("playerDisconnected", Room(mine[i]) \ {s},
                                      mine[i], "-", game[mine[i]].status)]
                        ELSE <<>>
           /\ timers' = timers \cup
                          {[gameId |-> mine[i], id |-> s, due |-> now + GraceMs] :
                              i \in 1..Len(mine)}
    /\ game' = [g \in DOMAIN game |->
                  IF InGames(g) THEN RemoveSpectator(game[g], s)
                  ELSE game[g]]
    /\ players' = [x \in DOMAIN players \ {s} |-> players[x]]
    /\ UNCHANGED <<games, now>>

\* socket.on('disconnect')
Disconnect(s) ==
    /\ last' = Ran("disconnect", s, "-")
    /\ sockets[s] = "open"
    /\ sockets' = [sockets EXCEPT ![s] = "closed"]
    /\ waitingPlayers' = Dequeue(waitingPlayers, s)
    /\ LET Mine(g) == IsCompetitor(game[g], s)
           mine == GamesWhere(Mine)
       IN  /\ outbox' = IF s \in DOMAIN players
                        THEN [i \in 1..Len(mine) |->
                                Event("playerDisconnected", Room(mine[i]) \ {s},
                                      mine[i], "-", game[mine[i]].status)]
                        ELSE <<>>
           /\ timers' = timers \cup
                          {[gameId |-> mine[i], id |-> s, due |-> now + GraceMs] :
                              i \in 1..Len(mine)}
    /\ game' = [g \in DOMAIN game |->
                  IF InGames(g) THEN RemoveSpectator(game[g], s)
                  ELSE game[g]]
    /\ players' = [x \in DOMAIN players \ {s} |-> players[x]]
    /\ UNCHANGED <<games, now>>

\* useSocket's cancelSearch of a searching client: socket.disconnect(), on
\* which the server runs the disconnect handler of that socket; the
\* socket.connect() that follows opens a connection with a new id
CancelSearch(s) ==
    /\ \E i \in 1..Len(waitingPlayers) : waitingPlayers[i].id = s
    /\ Disconnect(s)

\* useSocket's effect has currentGame as its dependency and socket.disconnect()
\* as its cleanup.  The listeners of gameFound, moveMade and spectatingStarted
\* call setCurrentGame with the gameState object of the event, a new object
\* each time, so after any of them React runs the cleanup, on which the
\* server runs the disconnect handler of that socket, and runs the effect
\* again, which opens a connection with a new id.
HookEvents == {"gameFound", "moveMade", "spectatingStarted"}

HookRerender(s) ==
    /\ \E i \in 1..Len(outbox) : outbox[i].ev \in HookEvents /\ s \in outbox[i].to
    /\ Disconnect(s)

GraceTimer_loserWins(tm) ==
    /\ last' = Ran("graceTimer", tm.id, tm.gameId)
    /\ tm \in timers
    /\ now >= tm.due
    /\ timers' = timers \ {tm}
    /\ IF InGames(tm.gameId)
       THEN LET g == tm.gameId
                winner == IF game[g].white.id = tm.id THEN "white_wins" ELSE "black_wins"
                Keep(x) == x # g
            IN  /\ game' = [game EXCEPT ![g].status = "disconnected"]
                /\ outbox' = <<Event("gameEnded", Room(g), g, winner, "disconnected")>>
                /\ games' = SelectSeq(games, Keep)
       ELSE /\ outbox' = <<>>
            /\ UNCHANGED <<game, games>>
    /\ UNCHANGED <<sockets, players, waitingPlayers, now>>

\* the setTimeout callback of the disconnect handler
GraceTimer(tm) ==
    /\ last' = Ran("graceTimer", tm.id, tm.gameId)
    /\ tm \in timers
    /\ now >= tm.due
    /\ timers' = timers \ {tm}
    /\ IF InGames(tm.gameId)
       THEN LET g == tm.gameId
                winner == IF game[g].white.id = tm.id THEN "black_wins" ELSE "white_wins"
                Keep(x) == x # g
            IN  /\ game' = [game EXCEPT ![g].status = "disconnected"]
                /\ outbox' = <<Event("gameEnded", Room(g), g, winner, "disconnected")>>
                /\ games' = SelectSeq(games, Keep)
       ELSE /\ outbox' = <<>>
            /\ UNCHANGED <<game, games>>
    /\ UNCHANGED <<sockets, players, waitingPlayers, now>>

\* the ticker's checkpoint of one playing game at time t: floored at zero
TickClock(gm, t) ==
    LET timeDiff == t - gm.lastMoveTime
    IN  IF gm.currentPlayer = "white"
        THEN [gm EXCEPT !.whiteTime = Max(0, @ - timeDiff), !.lastMoveTime = t]
        ELSE [gm EXCEPT !.blackTime = Max(0, @ - timeDiff), !.lastMoveTime = t]

TickTimeOut_never(gm) == gm

\* the ticker's "Check for time out" of one game after its checkpoint
TickTimeOut(gm) ==
    IF gm.whiteTime <= 0 \/ gm.blackTime <= 0
    THEN [gm EXCEPT !.status = "time_out"]
    ELSE gm

TickEvent_moverWins(g, gm, room) ==
    IF gm.whiteTime <= 0 \/ gm.blackTime <= 0
    THEN Event("gameEnded", room, g,
               IF gm.currentPlayer = "white" THEN "white_wins" ELSE "black_wins",
               "time_out")
    ELSE Event("timeUpdate", room, g, "-", "-")

\* the event the ticker broadcasts for one game after its checkpoint
TickEvent(g, gm, room) ==
    IF gm.whiteTime <= 0 \/ gm.blackTime <= 0
    THEN Event("gameEnded", room, g,
               IF gm.whiteTime <= 0 THEN "black_wins" ELSE "white_wins", "time_out")
    ELSE Event("timeUpdate", room, g, "-", "-")

Tick_noTimeOut ==
    /\ last' = Ran("tick", "-", "-")
    /\ \E s \in Ids : sockets[s] # "new"
    /\ LET Playing(g) == game[g].status = "playing"
           playing == GamesWhere(Playing)
       IN  /\ game' = [g \in DOMAIN game |->
                         IF InGames(g) /\ Playing(g)
                         THEN TickClock(game[g], now)
                         ELSE game[g]]
           /\ outbox' = [i \in 1..Len(playing) |->
                           TickEvent(playing[i], TickClock(game[playing[i]], now),
                                     Room(playing[i]))]
    /\ UNCHANGED <<sockets, players, waitingPlayers, games, timers, now>>

\* one pass of the setInterval callback over the games Map
Tick ==
    /\ last' = Ran("tick", "-", "-")
    /\ \E s \in Ids : sockets[s] # "new"
    /\ LET Playing(g) == game[g].status = "playing"
           playing == GamesWhere(Playing)
       IN  /\ game' = [g \in DOMAIN game |->
                         IF InGames(g) /\ Playing(g)
                         THEN TickTimeOut(TickClock(game[g], now))
                         ELSE game[g]]
           /\ outbox' = [i \in 1..Len(playing) |->
                           TickEvent(playing[i], TickClock(game[playing[i]], now),
                                     Room(playing[i]))]
    /\ UNCHANGED <<sockets, players, waitingPlayers, games, timers, now>>

\* the games Map after one pass of the setInterval callback over gs
TickPass(gs) ==
    [g \in DOMAIN gs |->
        IF InGames(g) /\ gs[g].status = "playing"
        THEN TickTimeOut(TickClock(gs[g], now))
        ELSE gs[g]]

\* the events one pass of the setInterval callback over gs broadcasts
TickPassEvents(gs) ==
    LET Playing(g) == gs[g].status = "playing"
        playing == GamesWhere(Playing)
    IN  [i \in 1..Len(playing) |->
            TickEvent(playing[i], TickClock(gs[playing[i]], now), Room(playing[i]))]

\* n passes of the callback one after the other, starting from gs
RECURSIVE TickPasses(_, _)
TickPasses(gs, n) ==
    IF n = 0
    THEN [game |-> gs, events |-> <<>>]
    ELSE LET rest == TickPasses(TickPass(gs), n - 1)
         IN  [game |-> rest.game, events |-> TickPassEvents(gs) \o rest.events]

\* setInterval is called in the connection handler and its handle is not
\* kept: every connection ever made owns a ticker, closed or not
Tickers == {s \in Ids : sockets[s] # "new"}

\* one interval of 1000 ms: every ticker's callback runs once
Interval ==
    /\ last' = Ran("interval", "-", "-")
    /\ Tickers # {}
    /\ LET ran == TickPasses(game, Cardinality(Tickers))
       IN  /\ game' = ran.game
           /\ outbox' = ran.events
    /\ UNCHANGED <<sockets, players, waitingPlayers, games, timers, now>>

\* wall-clock time passes between two handlers; nothing is emitted
AdvanceTime ==
    /\ last' = Ran("clock", "-", "-")
    /\ now + TimeStep <= MaxTicks * TimeStep
    /\ now' = now + TimeStep
    /\ outbox' = <<>>
    /\ UNCHANGED <<sockets, players, waitingPlayers, game, games, timers>>

\* ------------------------------------------- makeMove with any JSON payload
\* The coordinates of a makeMove as JavaScript values: a number n, undefined
\* (the field is missing), the non-integer number 1.5 and the string 'a'.
Num(n) == [t |-> "number", v |-> n]
Undefined == [t |-> "undefined", v |-> 0]
OneAndAHalf == [t |-> "fraction", v |-> 1]
NonNumeric == [t |-> "string", v |-> 0]

\* <<fromRow, fromCol, toRow, toCol>> of a makeMove: the two pawn advances
\* and, for white's, each way of sending a malformed origin row, a missing
\* origin column and a malformed destination row
RawInputs ==
    {<<Num(6), Num(0), Num(4), Num(0)>>, <<Num(1), Num(0), Num(3), Num(0)>>,
     <<Undefined, Num(0), Num(4), Num(0)>>, <<OneAndAHalf, Num(0), Num(4), Num(0)>>,
     <<NonNumeric, Num(0), Num(4), Num(0)>>, <<Num(6), Undefined, Num(4), Num(0)>>,
     <<Num(6), Num(0), Undefined, Num(0)>>, <<Num(6), Num(0), OneAndAHalf, Num(0)>>}

\* x < n and x > n for a JavaScript value x and an integer n: undefined and
\* 'a' convert to NaN, which compares false with everything
JsLess(x, n) == x.t \in {"number", "fraction"} /\ x.v < n
JsGreater(x, n) ==
    \/ x.t = "number" /\ x.v > n
    \/ x.t = "fraction" /\ x.v >= n

\* Game.makeMove's "Basic move validation" on JavaScript values
RawInBounds(fromRow, fromCol, toRow, toCol) ==
    ~(JsLess(fromRow, 0) \/ JsGreater(fromRow, 7) \/
      JsLess(fromCol, 0) \/ JsGreater(fromCol, 7) \/
      JsLess(toRow, 0) \/ JsGreater(toRow, 7) \/
      JsLess(toCol, 0) \/ JsGreater(toCol, 7))

\* x names an element of an array of 8: this.board[x] and row[x] are
\* undefined for every other x
IsIndex(x) == x.t = "number" /\ x.v \in 0..7

\* A TypeError thrown inside Game.makeMove, called from the makeMove handler
\* of socket s with no try/catch around it and no process-level handler.
\* Whether socket.io lets it end the process or drops it is the library's
\* affair: both outcomes are taken.  If the process ends, every connection
\* closes and registry, directory, queue, timers and tickers are gone; if
\* the handler is merely aborted, the Game is left as the throw found it
\* (gm) and nothing is emitted.
Throw(s, g, gm) ==
    \/ /\ last' = Ran("uncaughtException", s, g)
       /\ sockets' = [x \in Ids |-> IF sockets[x] = "open" THEN "closed" ELSE sockets[x]]
       /\ players' = [x \in {} |-> players[x]]
       /\ waitingPlayers' = <<>>
       /\ games' = <<>>
       /\ timers' = {}
       /\ outbox' = <<>>
       /\ UNCHANGED <<game, now>>
    \/ /\ last' = Ran("makeMove", s, g)
       /\ game' = [game EXCEPT ![g] = gm]
       /\ outbox' = <<>>
       /\ UNCHANGED <<sockets, players, waitingPlayers, games, timers, now>>

\* the reply to a makeMove that Game.makeMove returned false for
RejectMove(s, g) ==
    /\ last' = Ran("makeMove", s, g)
    /\ outbox' = MoveError(s)
    /\ UNCHANGED <<sockets, players, waitingPlayers, game, games, timers, now>>

\* socket.on('makeMove') with coordinates that are any JavaScript values;
\* the destination column is a number in every input
MakeMoveRaw(s, g, fromRow, fromCol, toRow, toCol) ==
    IF \A x \in {fromRow, fromCol, toRow, toCol} : x.t = "number"
    THEN MakeMove(s, g, fromRow.v, fromCol.v, toRow.v, toCol.v)
    ELSE /\ sockets[s] = "open"
         /\ toCol.t = "number"
         /\ IF ~InGames(g) \/ s \notin DOMAIN players
            THEN RejectMove(s, g)
            ELSE LET gm == game[g]
                     isWhitePlayer == gm.white.id = s
                     isBlackPlayer == gm.black.id = s
                 IN  IF ~isWhitePlayer /\ ~isBlackPlayer THEN RejectMove(s, g)
                     ELSE IF (gm.currentPlayer = "white" /\ ~isWhitePlayer) \/
                             (gm.currentPlayer = "black" /\ ~isBlackPlayer)
                     THEN RejectMove(s, g)
                     ELSE IF ~RawInBounds(fromRow, fromCol, toRow, toCol)
                     THEN RejectMove(s, g)
                     ELSE IF ~IsIndex(fromRow) THEN Throw(s, g, gm)
                     ELSE IF ~IsIndex(fromCol) THEN RejectMove(s, g)
                     ELSE LET piece == gm.board[<<fromRow.v, fromCol.v>>]
                          IN  IF piece = NULL THEN RejectMove(s, g)
                              ELSE IF (gm.currentPlayer = "white" /\ piece \notin WhitePieces) \/
                                      (gm.currentPlayer = "black" /\ piece \notin BlackPieces)
                              THEN RejectMove(s, g)
                              ELSE /\ ~IsIndex(toRow)
                                   /\ Throw(s, g, makeMoveClock(gm, now))

\* ------------------------------------------------------- the specification
\* The server right after its first pairing: s1, s2 and s3 connected, s1 and
\* s2 registered with the default rating, s1 queued by findMatch and s2's
\* findMatch paired with it, the coin making s1 white; s3 is an onlooker that
\* has not registered yet and s4 has not connected.
Init ==
    LET p1 == [id |-> "s1", rating |-> DefaultRating]
        p2 == [id |-> "s2", rating |-> DefaultRating]
    IN  /\ sockets = [s \in Ids |-> IF s = "s4" THEN "new" ELSE "open"]
        /\ players = [x \in {"s1", "s2"} |-> IF x = "s1" THEN p1 ELSE p2]
        /\ waitingPlayers = <<>>
        /\ game = [g \in {"g1"} |-> NewGame(p1, p2, 0)]
        /\ games = <<"g1">>
        /\ timers = {}
        /\ now = 0
        /\ outbox = <<Event("gameFound", {"s1"}, "g1", "white", "playing"),
                      Event("gameFound", {"s2"}, "g1", "black", "playing"),
                      Event("gameCreated", {"s1", "s2", "s3"}, "g1", "-", "playing")>>
        /\ last = Ran("findMatch", "s2", "-")

Next ==
    \/ \E s \in Onlookers, rating \in RatingInputs : Register(s, rating)
    \/ \E s \in Ids, g \in GameIds, m \in MoveInputs :
            MakeMove(s, g, m[1], m[2], m[3], m[4])
    \/ \E s \in Onlookers, g \in GameIds : SpectateGame(s, g)
    \/ \E s \in Ids, g \in GameIds : Resign(s, g)
    \/ \E s \in Ids, g \in GameIds : OfferDraw(s, g)
    \/ \E s \in Ids, g \in GameIds : AcceptDraw(s, g)
    \/ \E s \in Leavers : Disconnect(s)
    \/ \E tm \in timers : GraceTimer(tm)
    \/ Tick
    \/ AdvanceTime

Spec == Init /\ [][Next]_vars

\* ------------------------------------------------------------- the lobby
\* the rating each socket has registered with in the lobby
LobbyRating(s) ==
    CASE s = "s1" -> DefaultRating
      [] s = "s2" -> 1800
      [] s = "s3" -> 1650
      [] OTHER -> 1700

\* The server before any pairing: all four sockets connected and registered,
\* s4 last; nobody waits and no game was created.
LobbyInit ==
    /\ sockets = [s \in Ids |-> "open"]
    /\ players = [s \in Ids |-> [id |-> s, rating |-> LobbyRating(s)]]
    /\ waitingPlayers = <<>>
    /\ game = [g \in {} |-> NewGame(players["s1"], players["s2"], 0)]
    /\ games = <<>>
    /\ timers = {}
    /\ now = 0
    /\ outbox = <<Event("registered", {"s4"}, "-", "-", "-"),
                  Event("gamesList", {"s4"}, "-", "-", "-")>>
    /\ last = Ran("register", "s4", "-")

LobbyNext ==
    \/ \E s \in Ids, preferences \in RangeInputs, coin \in BOOLEAN :
            FindMatch(s, preferences, coin)
    \/ \E s \in Ids, g \in GameIds : SpectateGame(s, g)
    \/ \E s \in Ids : CancelSearch(s)
    \/ \E s \in Ids : Disconnect(s)

LobbySpec == LobbyInit /\ [][LobbyNext]_vars

\* ---------------------------------------------- the queue and disconnects
\* The server before any pairing with s1, s2 and s3 registered and s4
\* connected but not registered.
RaceInit ==
    /\ sockets = [s \in Ids |-> "open"]
    /\ players = [s \in Ids \ {"s4"} |-> [id |-> s, rating |-> LobbyRating(s)]]
    /\ waitingPlayers = <<>>
    /\ game = [g \in {} |-> NewGame(players["s1"], players["s2"], 0)]
    /\ games = <<>>
    /\ timers = {}
    /\ now = 0
    /\ outbox = <<Event("registered", {"s3"}, "-", "-", "-"),
                  Event("gamesList", {"s3"}, "-", "-", "-")>>
    /\ last = Ran("register", "s3", "-")

RaceNext ==
    \/ \E s \in Ids, preferences \in RangeInputs, coin \in BOOLEAN :
            FindMatch(s, preferences, coin)
    \/ \E s \in Ids : Disconnect(s)

RaceSpec == RaceInit /\ [][RaceNext]_vars

\* ------------------------------------------------ ratings and the queue
\* The server before any pairing, with s3 registering again with another
\* rating between the findMatch intents.
RatingNext ==
    \/ \E s \in Onlookers, rating \in ReRatings : Register(s, rating)
    \/ \E s \in Ids, preferences \in RangeInputs, coin \in BOOLEAN :
            FindMatch(s, preferences, coin)

RatingSpec == RaceInit /\ [][RatingNext]_vars

\* ------------------------------------------------- a competitor comes back
\* the grace timer of the closed socket old is pending and not yet due
WithinGrace(old) == \E tm \in timers : tm.id = old /\ now < tm.due

\* The first session, in which black (s2) may disconnect and its client may
\* come back within the grace period as a new connection that registers,
\* spectates the session and sends moves.
ReconnectNext ==
    \/ \E s \in Returning : WithinGrace("s2") /\ Connect(s)
    \/ \E s \in Returning, rating \in RatingInputs :
            WithinGrace("s2") /\ Register(s, rating)
    \/ \E s \in Returning, g \in GameIds : WithinGrace("s2") /\ SpectateGame(s, g)
    \/ \E s \in Ids, g \in GameIds, m \in MoveInputs :
            MakeMove(s, g, m[1], m[2], m[3], m[4])
    \/ Disconnect("s2")
    \/ \E tm \in timers : GraceTimer(tm)
    \/ Tick
    \/ AdvanceTime

ReconnectSpec == Init /\ [][ReconnectNext]_vars

\* ------------------------------------------------ the board of one session
\* The first session with an onlooker that may register and spectate, and
\* every connection sending makeMove with the board inputs.
BoardNext ==
    \/ \E s \in Onlookers, rating \in RatingInputs : Register(s, rating)
    \/ \E s \in Onlookers, g \in GameIds : SpectateGame(s, g)
    \/ \E s \in Ids, g \in GameIds, m \in BoardInputs :
          MakeMove(s, g, m[1], m[2], m[3], m[4])
    \/ AdvanceTime

BoardSpec == Init /\ [][BoardNext]_vars

\* ------------------------------------------------ tickers and connections
\* The first session while connections are opened and closed, a spectator
\* joins and moves are made, observed one ticker interval at a time.
TickerNext ==
    \/ \E s \in Returning : Connect(s)
    \/ \E s \in Leavers : Disconnect(s)
    \/ \E s \in Onlookers, g \in GameIds : SpectateGame(s, g)
    \/ \E s \in Ids, g \in GameIds, m \in MoveInputs :
          MakeMove(s, g, m[1], m[2], m[3], m[4])
    \/ Interval
    \/ AdvanceTime

TickerSpec == Init /\ [][TickerNext]_vars

\* ------------------------------------------------- clients with useSocket
\* The first session with every client running the useSocket hook: sockets
\* close only when the hook closes them, and the hook's new connection is s4.
HookNext ==
    \/ \E s \in Ids : HookRerender(s)
    \/ \E s \in Returning : Connect(s)
    \/ \E s \in Onlookers, g \in GameIds : SpectateGame(s, g)
    \/ \E s \in Ids, g \in GameIds, m \in MoveInputs :
          MakeMove(s, g, m[1], m[2], m[3], m[4])
    \/ \E tm \in timers : GraceTimer(tm)
    \/ Tick
    \/ AdvanceTime

HookSpec == Init /\ [][HookNext]_vars

\* ------------------------------------------------------ malformed moves
\* the Node process runs until an exception leaves a handler uncaught
Alive == last.op # "uncaughtException"

\* The first session with makeMove payloads of every shape, a spectator, a
\* resignation and the ticker, for as long as the process lives.
MalformedNext ==
    \/ \E s \in Ids, g \in GameIds, m \in RawInputs :
          Alive /\ MakeMoveRaw(s, g, m[1], m[2], m[3], m[4])
    \/ \E s \in Onlookers, g \in GameIds : Alive /\ SpectateGame(s, g)
    \/ \E s \in Ids, g \in GameIds : Alive /\ Resign(s, g)
    \/ Alive /\ Tick
    \/ Alive /\ AdvanceTime

MalformedSpec == Init /\ [][MalformedNext]_vars

\* ------------------------------------------------- the ticker left alone
\* wall-clock time passes while a session is playing.  The two clocks hold
\* 2 * InitialTime together and every elapsed millisecond is debited to one of
\* them by the next checkpoint, so no session is still playing at a
\* checkpoint later than that; time is not followed further.
Elapse ==
    /\ last' = Ran("clock", "-", "-")
    /\ \E g \in DOMAIN game : InGames(g) /\ game[g].status = "playing"
    /\ now < 2 * InitialTime
    /\ now' = now + TimeStep
    /\ outbox' = <<>>
    /\ UNCHANGED <<sockets, players, waitingPlayers, game, games, timers>>

\* The first session with time passing for as long as it is playing; the
\* competitors may move, resign or leave, and need not.
LiveNext ==
    \/ \E s \in Ids, g \in GameIds, m \in MoveInputs :
          MakeMove(s, g, m[1], m[2], m[3], m[4])
    \/ \E s \in Ids, g \in GameIds : Resign(s, g)
    \/ \E s \in Leavers : Disconnect(s)
    \/ \E tm \in timers : GraceTimer(tm)
    \/ Tick
    \/ Elapse

\* setInterval runs its callback every second for as long as the process
\* lives, and Date.now() keeps advancing: both are weakly fair
LiveSpec == Init /\ [][LiveNext]_vars /\ WF_vars(Tick) /\ WF_vars(Elapse)

\* ------------------------------------------------ sessions after their end
\* wall-clock time passes while a grace timer is pending
AwaitTimer ==
    /\ last' = Ran("clock", "-", "-")
    /\ \E tm \in timers : now < tm.due
    /\ now' = now + TimeStep
    /\ outbox' = <<>>
    /\ UNCHANGED <<sockets, players, waitingPlayers, game, games, timers>>

CleanupNext ==
    \/ LiveNext
    \/ AwaitTimer

\* What the server does by itself: the ticker fires, time passes and a due
\* setTimeout callback runs.  Intents and disconnections are the clients'
\* affair and come or not.
CleanupSpec ==
    /\ Init /\ [][CleanupNext]_vars
    /\ WF_vars(Tick) /\ WF_vars(Elapse) /\ WF_vars(AwaitTimer)
    /\ WF_vars(\E tm \in timers : GraceTimer(tm))

\* ------------------------------------------------------------ properties
\* the fields of a session that a move writes
Position(gm) ==
    <<gm.board, gm.moves, gm.currentPlayer, gm.whiteTime, gm.blackTime>>

\* a moveMade for session g was broadcast in the last step: a move was accepted
MoveMadeIn(box, g) ==
    \E i \in 1..Len(box) : box[i].ev = "moveMade" /\ box[i].gid = g

\* a gameEnded for session g naming result was broadcast to room in the last step
GameEndedIn(box, g, result, room) ==
    \E i \in 1..Len(box) :
        /\ box[i].ev = "gameEnded" /\ box[i].gid = g
        /\ box[i].result = result /\ box[i].to = room

TimeOf(gm, side) == IF side = "white" THEN gm.whiteTime ELSE gm.blackTime

\* C1: once a session's status is draw, resigned, time_out or disconnected,
\* no makeMove intent, from any identity and with any coordinates, changes
\* its board, move log, side to move or either clock.
C1_NoMoveAfterTerminal ==
    [][\A g \in DOMAIN game :
          (game[g].status \in Terminal /\ last'.op = "makeMove")
              => Position(game'[g]) = Position(game[g])]_vars

\* C2: a session's status is playing at creation and, once it is draw,
\* resigned, time_out or disconnected, no step changes it again.
C2_TerminalStatusIsFinal ==
    /\ \A g \in DOMAIN game : game[g].status = "playing"
    /\ [][\A g \in DOMAIN game :
            game[g].status \in Terminal => game'[g].status = game[g].status]_vars

\* the acceptance condition of C3, on a session gm, a move m and a requester s
SpecAccepts(gm, m, s) ==
    LET side == gm.currentPlayer
        Own == IF side = "white" THEN WhitePieces ELSE BlackPieces
    IN  /\ s = (IF side = "white" THEN gm.white.id ELSE gm.black.id)
        /\ \A i \in 1..4 : m[i] >= 0 /\ m[i] <= 7
        /\ gm.board[<<m[1], m[2]>>] \in Own
        /\ gm.board[<<m[3], m[4]>>] \notin Own

\* C3: a makeMove of a registered requester on a registered session is
\* accepted (a Move is appended to the log) if and only if the requester is
\* the side to move, the four coordinates are in [0,7], the origin holds a
\* piece of the side to move and the destination holds no piece of that side.
C3_AcceptedIffLegal ==
    [][\A g \in DOMAIN game, s \in Ids, m \in MoveInputs :
          (/\ InGames(g) /\ s \in DOMAIN players
           /\ Len(game[g].moves) < MaxMoves
           /\ MakeMove(s, g, m[1], m[2], m[3], m[4]))
              => (Len(game'[g].moves) = Len(game[g].moves) + 1
                    <=> SpecAccepts(game[g], m, s))]_vars

\* C4: a makeMove that is rejected (no moveMade is broadcast) leaves every
\* session's board, side to move, move log, clocks, checkpoint time and
\* status unchanged and emits exactly one event, a moveError delivered to the
\* caller alone.
C4_RejectedMoveChangesNothing ==
    [][(last'.op = "makeMove" /\ ~MoveMadeIn(outbox', last'.gid))
          => /\ game' = game
             /\ games' = games
             /\ outbox' = <<Event("moveError", {last'.id}, "-", "-", "-")>>]_vars

\* a rejected move of the competitor that is not to move, in a session under way
C4_Witness ==
    /\ last = Ran("makeMove", "s1", "g1")
    /\ Len(game["g1"].moves) = 1
    /\ game["g1"].status = "playing"
    /\ outbox = <<Event("moveError", {"s1"}, "-", "-", "-")>>

C6_SideToMoveParity ==
    \A g \in DOMAIN game :
        game[g].currentPlayer = (IF Len(game[g].moves) % 2 = 0 THEN "white" ELSE "black")

\* two moves were accepted and white is to move again
C6_Witness ==
    /\ Len(game["g1"].moves) = 2
    /\ game["g1"].currentPlayer = "white"

\* C7: an accepted move at time now leaves the mover's remaining time at its
\* old value minus (now - checkpoint time), bounded below by zero, leaves the
\* opponent's remaining time unchanged and sets the checkpoint time to now;
\* the mover is the side to move before the flip.
C7_MoveDebitsMoverFloored ==
    [][\A g \in DOMAIN game :
          (last'.op = "makeMove" /\ MoveMadeIn(outbox', g))
              => LET side == game[g].currentPlayer
                     delta == now - game[g].lastMoveTime
                 IN  /\ TimeOf(game'[g], side) = Max(0, TimeOf(game[g], side) - delta)
                     /\ TimeOf(game'[g], Other(side)) = TimeOf(game[g], Other(side))
                     /\ game'[g].lastMoveTime = now]_vars

\* C8: in every reachable state both remaining-time counters of every
\* session are greater than or equal to zero.
C8_ClocksNeverNegative ==
    \A g \in DOMAIN game : game[g].whiteTime >= 0 /\ game[g].blackTime >= 0

\* C9: a step that leaves a remaining time of a playing session at or below
\* zero (a checkpoint of the ticker or of an accepted move) sets the status
\* to time_out in the same step, and every gameEnded it broadcasts for the
\* session goes to the session's room and names the other side the winner.
C9_ExhaustionEndsSession ==
    [][\A g \in DOMAIN game :
          (/\ game[g].status = "playing"
           /\ game'[g].whiteTime <= 0 \/ game'[g].blackTime <= 0)
              => LET winner == IF game'[g].whiteTime <= 0
                               THEN "black_wins" ELSE "white_wins"
                 IN  /\ last'.op \in {"tick", "makeMove"}
                     /\ game'[g].status = "time_out"
                     /\ GameEndedIn(outbox', g, winner, Room(g))
                     /\ \A i \in 1..Len(outbox') :
                            (outbox'[i].ev = "gameEnded" /\ outbox'[i].gid = g)
                                => outbox'[i].result = winner]_vars

\* black ran out of time on its own accepted move
C9_Witness ==
    /\ last.op = "makeMove"
    /\ game["g1"].status = "time_out"
    /\ game["g1"].blackTime <= 0
    /\ GameEndedIn(outbox, "g1", "white_wins", Room("g1"))

\* C10: a session is created with nothing debited and its checkpoint time at
\* the creation time, and every step that keeps it playing debits exactly the
\* advance of its checkpoint time, all of it to the side that was to move
\* before the step; so the total debited from both clocks of a playing
\* session is its checkpoint time minus its creation time.
C10_ElapsedDebitedOnceToMover ==
    /\ \A g \in DOMAIN game :
          /\ game[g].whiteTime = InitialTime /\ game[g].blackTime = InitialTime
          /\ game[g].lastMoveTime = now
    /\ [][\A g \in DOMAIN game :
            (game[g].status = "playing" /\ game'[g].status = "playing")
                => LET side == game[g].currentPlayer
                       delta == game'[g].lastMoveTime - game[g].lastMoveTime
                   IN  /\ TimeOf(game'[g], side) = TimeOf(game[g], side) - delta
                       /\ TimeOf(game'[g], Other(side)) = TimeOf(game[g], Other(side))
                       /\ delta # 0 => game'[g].lastMoveTime = now]_vars

\* a playing session in which each side has been debited for its own wait
C10_Witness ==
    /\ game["g1"].status = "playing"
    /\ game["g1"].whiteTime < InitialTime
    /\ game["g1"].blackTime < InitialTime
    /\ game["g1"].whiteTime + game["g1"].blackTime
          = 2 * InitialTime - game["g1"].lastMoveTime

\* a gameEnded for session g was broadcast in the last step
AnyGameEndedIn(box, g) ==
    \E i \in 1..Len(box) : box[i].ev = "gameEnded" /\ box[i].gid = g

\* C11: when the grace timer of a disconnected competitor fires on a session
\* whose status has meanwhile become draw, resigned or time_out, it leaves
\* that status in place and broadcasts no gameEnded.
C11_GraceTimerKeepsOtherTerminal ==
    [][\A g \in DOMAIN game :
          (/\ last'.op = "graceTimer" /\ last'.gid = g
           /\ game[g].status \in {"draw", "resigned", "time_out"})
              => /\ game'[g].status = game[g].status
                 /\ ~AnyGameEndedIn(outbox', g)]_vars

\* C12: a resign on a session whose status is already resigned changes no
\* session and broadcasts no gameEnded.
C12_SecondResignIsNoOp ==
    [][\A g \in DOMAIN game :
          (/\ last'.op = "resign" /\ last'.gid = g
           /\ game[g].status = "resigned")
              => /\ game' = game
                 /\ games' = games
                 /\ ~AnyGameEndedIn(outbox', g)]_vars

\* the number of tickets of identity id in a waiting queue
TicketsOf(queue, id) == Cardinality({i \in 1..Len(queue) : queue[i].id = id})

\* C13: in every reachable state the waiting queue holds at most one ticket
\* per identity; a findMatch of an identity that has a ticket does not
\* lengthen the queue, and if it pairs nobody the caller's single ticket is
\* the last of a queue of the same length.
C13_OneTicketPerIdentity ==
    /\ [](\A s \in Ids : TicketsOf(waitingPlayers, s) <= 1)
    /\ [][(last'.op = "findMatch" /\ TicketsOf(waitingPlayers, last'.id) = 1)
            => /\ TicketsOf(waitingPlayers', last'.id) <= 1
               /\ Len(waitingPlayers') <= Len(waitingPlayers)
               /\ games' = games
                    => /\ Len(waitingPlayers') = Len(waitingPlayers)
                       /\ waitingPlayers'[Len(waitingPlayers')].id = last'.id]_vars

\* s1 has asked again while s2 waits: one ticket each, s1's is the last
C13_Witness ==
    /\ last = Ran("findMatch", "s1", "-")
    /\ Len(waitingPlayers) = 2
    /\ waitingPlayers[1].id = "s2" /\ waitingPlayers[2].id = "s1"
    /\ outbox[1].ev = "waitingForMatch" /\ outbox[1].position = 2

\* the rating tolerance of a findMatch as the specification words it: the
\* ratingRange supplied, 200 when none is supplied
Tolerance(preferences) ==
    IF preferences = <<>> THEN DefaultRange ELSE preferences[1]

\* waiting queue without the tickets of identity id
TicketsOfOthers(queue, id) ==
    LET NotMine(t) == t.id # id
    IN  SelectSeq(queue, NotMine)

\* the indices of the tickets of queue within tol of rating
EligibleIn(queue, rating, tol) ==
    {i \in 1..Len(queue) : Abs(queue[i].rating - rating) <= tol}

C15_PairedWithinSuppliedRange ==
    [][\A s \in Ids, preferences \in RangeInputs, coin \in BOOLEAN :
          (FindMatch(s, preferences, coin) /\ s \in DOMAIN players)
              => LET queue == TicketsOfOthers(waitingPlayers, s)
                     tol == Tolerance(preferences)
                     E == EligibleIn(queue, players[s].rating, tol)
                 IN  /\ E = {} => (games' = games /\ game' = game)
                     /\ games' # games
                          => LET gm == game'[games'[Len(games')]]
                                 opponent == IF gm.white.id = s THEN gm.black
                                             ELSE gm.white
                             IN  Abs(opponent.rating - players[s].rating) <= tol]_vars

\* C16: a findMatch that pairs caller B with waiting player A appends exactly
\* one new playing session with sides A and B to the registry and changes no
\* other session; afterwards neither has a ticket; the events are gameFound
\* white to the white side, gameFound black to the black side and gameCreated
\* to every connected socket.
C16_PairingResult ==
    [][(last'.op = "findMatch" /\ games' # games)
          => LET B == last'.id
                 g == games'[Len(games')]
                 gm == game'[g]
                 A == IF gm.white.id = B THEN gm.black.id ELSE gm.white.id
             IN  /\ games' = Append(games, g)
                 /\ g \notin DOMAIN game
                 /\ \A h \in DOMAIN game : game'[h] = game[h]
                 /\ gm.status = "playing"
                 /\ B \in {gm.white.id, gm.black.id}
                 /\ A # B
                 /\ TicketsOf(waitingPlayers, A) = 1
                 /\ TicketsOf(waitingPlayers', A) = 0
                 /\ TicketsOf(waitingPlayers', B) = 0
                 /\ Len(waitingPlayers') = Len(TicketsOfOthers(waitingPlayers, B)) - 1
                 /\ outbox' =
                      <<Event("gameFound", {gm.white.id}, g, "white", "playing"),
                        Event("gameFound", {gm.black.id}, g, "black", "playing"),
                        Event("gameCreated", {x \in Ids : sockets[x] = "open"},
                              g, "-", "playing")>>]_vars

\* a pairing has just emptied the queue and registered session g1
C16_Witness ==
    /\ last.op = "findMatch"
    /\ InGames("g1") /\ game["g1"].status = "playing"
    /\ waitingPlayers = <<>>
    /\ Len(outbox) = 3 /\ outbox[3].ev = "gameCreated"

\* the connected members of session gm's room: competitors and spectators
Members(gm) ==
    {s \in Ids : /\ sockets[s] = "open"
                 /\ (s = gm.white.id \/ s = gm.black.id \/ s \in gm.spectators)}

\* C17: a step that lengthens a session's move log appends one move to it
\* and broadcasts exactly one moveMade for the session, carrying that move's
\* index in the log, to every connected competitor and spectator; any other
\* step (a ticker pass with its timeUpdate included) leaves the log as it is
\* and broadcasts no moveMade.  So each member receives the moveMade events in
\* log order, none twice and none missing.
C17_MoveMadeFollowsLog ==
    [][\A g \in DOMAIN game :
          LET made == {i \in 1..Len(outbox') :
                          outbox'[i].ev = "moveMade" /\ outbox'[i].gid = g}
              n == Len(game'[g].moves)
          IN  IF n # Len(game[g].moves)
              THEN /\ game'[g].moves = Append(game[g].moves, game'[g].moves[n])
                   /\ Cardinality(made) = 1
                   /\ \A i \in made : /\ outbox'[i].move = n
                                       /\ outbox'[i].to = Members(game[g])
              ELSE made = {}]_vars

\* the second move of the log has just been broadcast to a room with a spectator
C17_Witness ==
    /\ last.op = "makeMove"
    /\ Len(game["g1"].moves) = 2
    /\ Len(outbox) >= 1
    /\ outbox[1].ev = "moveMade" /\ outbox[1].move = 2
    /\ outbox[1].to = {"s1", "s2", "s3"}

\* the error events of the server
ErrorEvents == {"moveError", "spectateError"}

\* C18: a makeMove, spectateGame, resign, offerDraw or acceptDraw naming a
\* session id that is not in the registry changes no state and emits exactly
\* one event, an error delivered to the caller alone.
C18_UnknownSessionErrorToCaller ==
    [][(/\ last'.op \in {"makeMove", "spectateGame", "resign", "offerDraw", "acceptDraw"}
        /\ ~InGames(last'.gid))
          => /\ UNCHANGED <<sockets, players, waitingPlayers, game, games, timers>>
             /\ Len(outbox') = 1
             /\ outbox'[1].ev \in ErrorEvents
             /\ outbox'[1].to = {last'.id}]_vars

\* C19: a socket whose connection has closed has no ticket in the waiting
\* queue, is in the spectator set of no registered session (competitor there
\* or not) and is not in the players directory.
C19_DisconnectCleansUp ==
    \A s \in Ids :
        sockets[s] = "closed"
            => /\ TicketsOf(waitingPlayers, s) = 0
               /\ \A g \in DOMAIN game : InGames(g) => s \notin game[g].spectators
               /\ s \notin DOMAIN players

\* a competitor of g1 has just disconnected while another socket spectates g1
C19_Witness ==
    /\ last.op = "disconnect"
    /\ sockets[last.id] = "closed"
    /\ InGames("g1")
    /\ IsCompetitor(game["g1"], last.id)
    /\ game["g1"].spectators # {}

\* C20: the disconnect of a competitor of a registered playing session
\* broadcasts playerDisconnected to the rest of the room, keeps the session
\* playing and registered and schedules a timer 30000 ms ahead; when that
\* timer fires, not before its due time, on a session still registered and
\* playing, the status becomes disconnected, gameEnded names the side that
\* did not disconnect the winner and the session leaves the registry.
C20_DisconnectGrace ==
    [][\A g \in DOMAIN game :
          /\ (/\ last'.op = "disconnect"
              /\ InGames(g) /\ game[g].status = "playing"
              /\ IsCompetitor(game[g], last'.id))
                => /\ \E i \in 1..Len(outbox') :
                        /\ outbox'[i].ev = "playerDisconnected"
                        /\ outbox'[i].gid = g
                        /\ outbox'[i].to = Members(game[g]) \ {last'.id}
                   /\ game'[g].status = "playing"
                   /\ games' = games
                   /\ \E tm \in timers' \ timers :
                        /\ tm.gameId = g /\ tm.id = last'.id
                        /\ tm.due = now + GraceMs
          /\ (/\ last'.op = "graceTimer" /\ last'.gid = g
              /\ InGames(g) /\ game[g].status = "playing")
                => /\ \E tm \in timers \ timers' :
                        tm.gameId = g /\ tm.id = last'.id /\ now >= tm.due
                   /\ game'[g].status = "disconnected"
                   /\ outbox' =
                        <<Event("gameEnded", Members(game[g]), g,
                                IF game[g].white.id = last'.id
                                THEN "black_wins" ELSE "white_wins",
                                "disconnected")>>
                   /\ \A i \in 1..Len(games') : games'[i] # g]_vars

\* black's grace timer has ended a session that was still under way
C20_Witness ==
    /\ last = Ran("graceTimer", "s2", "g1")
    /\ game["g1"].status = "disconnected"
    /\ ~InGames("g1")
    /\ Len(outbox) = 1
    /\ outbox[1].result = "white_wins" /\ "s1" \in outbox[1].to

\* the returning connection s is open, registered and has joined session gm
CameBack(s, gm) ==
    /\ sockets[s] = "open"
    /\ s \in DOMAIN players
    /\ s \in gm.spectators

\* C21: when the client of a disconnected competitor has come back within
\* the grace period (connected, registered and joined the session again),
\* the grace timer firing on the still playing session leaves it playing and
\* registered and broadcasts no gameEnded, and a move of the returning
\* connection for the side it played is accepted when that side is to move.
C21_ReconnectSkipsGraceTimer ==
    [][\A g \in DOMAIN game, s \in Returning :
          (/\ InGames(g) /\ game[g].status = "playing"
           /\ sockets[game[g].black.id] = "closed"
           /\ CameBack(s, game[g]))
              => /\ (last'.op = "graceTimer" /\ last'.gid = g)
                      => /\ game'[g].status = "playing"
                         /\ games' = games
                         /\ ~AnyGameEndedIn(outbox', g)
                 /\ \A m \in MoveInputs :
                      (/\ game[g].currentPlayer = "black"
                       /\ Len(game[g].moves) < MaxMoves
                       /\ InBounds(m[1], m[2], m[3], m[4])
                       /\ game[g].board[<<m[1], m[2]>>] \in BlackPieces
                       /\ game[g].board[<<m[3], m[4]>>] \notin BlackPieces
                       /\ MakeMove(s, g, m[1], m[2], m[3], m[4]))
                          => MoveMadeIn(outbox', g)]_vars

\* C22: a cancelSearch removes the caller's ticket from the waiting queue
\* and changes nothing else: the caller's connection and registration, every
\* session with its spectators, the registry and the grace timers stay as
\* they are (so that a later findMatch of the caller is served).
C22_CancelOnlyDequeues ==
    [][\A s \in Ids :
          CancelSearch(s)
              => /\ waitingPlayers' = TicketsOfOthers(waitingPlayers, s)
                 /\ sockets' = sockets
                 /\ players' = players
                 /\ game' = game
                 /\ games' = games
                 /\ timers' = timers]_vars

C24_OutsiderIntentChangesNothing ==
    [][\A g \in DOMAIN game, s \in Ids :
          (/\ last'.op \in {"makeMove", "resign", "offerDraw", "acceptDraw"}
           /\ last'.gid = g /\ last'.id = s
           /\ InGames(g) /\ ~IsCompetitor(game[g], s))
              => /\ Position(game'[g]) = Position(game[g])
                 /\ game'[g].status = game[g].status
                 /\ \A i \in 1..Len(outbox') : outbox'[i].to \subseteq {s}]_vars

\* C25: a makeMove sent for a session by one of its spectators that is
\* neither its white nor its black is rejected whatever the board and the
\* side to move: no session changes, no moveMade is broadcast and the sender
\* alone gets moveError.
C25_SpectatorCannotMove ==
    [][\A g \in DOMAIN game, s \in Ids :
          (/\ last'.op = "makeMove" /\ last'.gid = g /\ last'.id = s
           /\ InGames(g)
           /\ s \in game[g].spectators /\ ~IsCompetitor(game[g], s))
              => /\ game' = game
                 /\ ~MoveMadeIn(outbox', g)
                 /\ outbox' = MoveError(s)]_vars

\* the registered spectator s3 has sent a makeMove after two accepted moves
C25_Witness ==
    /\ last.op = "makeMove" /\ last.id = "s3"
    /\ "s3" \in DOMAIN players /\ "s3" \in game["g1"].spectators
    /\ Len(game["g1"].moves) = 2
    /\ outbox = MoveError("s3")

\* C29: after an accepted move the destination square holds the piece that
\* stood on the origin, the origin is empty, every other square is as it was,
\* and the appended Move record's captured field is what stood on the
\* destination before the move.
C29_MoveRelocatesPiece ==
    [][\A g \in DOMAIN game :
          (last'.op = "makeMove" /\ last'.gid = g /\ MoveMadeIn(outbox', g))
              => LET move == game'[g].moves[Len(game'[g].moves)]
                     before == game[g].board
                     after == game'[g].board
                 IN  /\ after[move.to] = before[move.from]
                     /\ after[move.from] = NULL
                     /\ \A sq \in DOMAIN before \ {move.from, move.to} :
                            after[sq] = before[sq]
                     /\ move.captured = before[move.to]]_vars

\* C26: with the ticker firing and time advancing, a session that is playing
\* eventually is not playing any more, whether or not anybody sends an
\* intent in between.
C26_PlayingEventuallyEnds ==
    \A g \in GameIds :
        (InGames(g) /\ game[g].status = "playing")
            ~> (game[g].status # "playing")

\* nobody has moved and the ticker has ended the session on white's clock
C26_Witness ==
    /\ last.op = "tick"
    /\ game["g1"].status = "time_out"
    /\ game["g1"].moves = <<>>
    /\ game["g1"].whiteTime = 0
    /\ GameEndedIn(outbox, "g1", "black_wins", Members(game["g1"]))

\* the events of box that are about session g
EventsOf(box, g) == {i \in 1..Len(box) : box[i].gid = g}

\* C27: in each ticker interval the room of every playing session receives
\* exactly one event, a timeUpdate or, when a clock is exhausted, a
\* gameEnded, and a session that is not playing receives none and keeps its
\* clocks, however many connections have been opened or closed.
C27_OneEventPerTick ==
    [][\A g \in DOMAIN game :
          (last'.op = "interval" /\ InGames(g))
              => IF game[g].status = "playing"
                 THEN /\ Cardinality(EventsOf(outbox', g)) = 1
                      /\ \A i \in EventsOf(outbox', g) :
                            /\ outbox'[i].to = Members(game[g])
                            /\ outbox'[i].ev =
                                  IF game'[g].whiteTime <= 0 \/ game'[g].blackTime <= 0
                                  THEN "gameEnded" ELSE "timeUpdate"
                 ELSE /\ EventsOf(outbox', g) = {}
                      /\ game'[g] = game[g]]_vars

C30_MoveLogAppendOnly ==
    [][\A g \in DOMAIN game :
          LET old == game[g].moves
              new == game'[g].moves
          IN  IF last'.op = "makeMove" /\ last'.gid = g /\ MoveMadeIn(outbox', g)
              THEN /\ Len(new) = Len(old) + 1
                   /\ SubSeq(new, 1, Len(old)) = old
                   /\ new[Len(new)].player = game[g].currentPlayer
              ELSE new = old]_vars

\* a move that exhausted the mover's clock was appended after an earlier one
C30_Witness ==
    /\ last.op = "makeMove" /\ MoveMadeIn(outbox, "g1")
    /\ game["g1"].status = "time_out"
    /\ Len(game["g1"].moves) = 2
    /\ game["g1"].moves[1].player = "white"
    /\ game["g1"].moves[2].player = "black"

\* C31: once a session has ended (its first gameEnded was broadcast with the
\* step that made its status draw, resigned, time_out or disconnected), no
\* later step broadcasts a gameEnded or a moveMade for it, and its status is
\* never playing again.
C31_NothingAfterGameEnded ==
    [][\A g \in DOMAIN game :
          game[g].status \in Terminal
              => /\ ~AnyGameEndedIn(outbox', g)
                 /\ ~MoveMadeIn(outbox', g)
                 /\ game'[g].status # "playing"]_vars

\* a drawOffered for session g was delivered in the last step
DrawOfferedIn(box, g) == {i \in 1..Len(box) : box[i].ev = "drawOffered" /\ box[i].gid = g}

\* C32: an offerDraw changes no session; sent by white or black it delivers
\* one drawOffered, to the other competitor and to nobody else, and sent by
\* anybody else it delivers none.
C32_DrawOfferToOpponentOnly ==
    [][\A g \in DOMAIN game, s \in Ids :
          (last'.op = "offerDraw" /\ last'.gid = g /\ last'.id = s /\ InGames(g))
              => /\ game' = game
                 /\ IF IsCompetitor(game[g], s)
                    THEN LET opponent == IF game[g].white.id = s
                                         THEN game[g].black.id ELSE game[g].white.id
                         IN  /\ Len(outbox') = 1
                             /\ DrawOfferedIn(outbox', g) = {1}
                             /\ outbox'[1].to \subseteq {opponent}
                    ELSE DrawOfferedIn(outbox', g) = {}]_vars

\* a makeMove payload with a coordinate that is missing, not an integer or
\* not a number
Malformed(m) == \E i \in 1..4 : m[i].t # "number"

\* C33: a makeMove with a malformed coordinate is answered with moveError to
\* its sender alone and changes nothing, and the process goes on serving
\* intents and ticker passes after it.
C33_MalformedMoveRejected ==
    [][\A s \in Ids, g \in GameIds, m \in RawInputs :
          (Malformed(m) /\ MakeMoveRaw(s, g, m[1], m[2], m[3], m[4]))
              => /\ outbox' = MoveError(s)
                 /\ game' = game /\ games' = games
                 /\ sockets' = sockets /\ players' = players
                 /\ waitingPlayers' = waitingPlayers /\ timers' = timers
                 /\ Alive']_vars

\* C34: every ticket of the waiting queue belongs to an identity that is
\* registered and whose socket is open; so whatever the order of disconnect
\* and findMatch intents, both competitors of a session are registered and
\* connected when it is created, and a findMatch from an unregistered
\* connection changes neither the queue nor the registry.
C34_TicketsAreLive ==
    /\ [](\A i \in 1..Len(waitingPlayers) :
            /\ waitingPlayers[i].id \in DOMAIN players
            /\ sockets[waitingPlayers[i].id] = "open")
    /\ [][Len(games') > Len(games)
            => LET gm == game'[games'[Len(games')]]
               IN  \A c \in {gm.white.id, gm.black.id} :
                      /\ sockets[c] = "open" /\ sockets'[c] = "open"
                      /\ c \in DOMAIN players /\ c \in DOMAIN players']_vars
    /\ [][\A s \in Ids :
            (last'.op = "findMatch" /\ last'.id = s /\ s \notin DOMAIN players)
                => /\ waitingPlayers' = waitingPlayers
                   /\ games' = games /\ game' = game]_vars

\* s1 has left, s2 waits, and the unregistered s4 has sent a findMatch
C34_Witness ==
    /\ last.op = "findMatch" /\ last.id = "s4"
    /\ "s4" \notin DOMAIN players
    /\ sockets["s1"] = "closed"
    /\ Len(waitingPlayers) = 1 /\ waitingPlayers[1].id = "s2"

\* C35: a session of the registry whose status is draw, resigned, time_out or
\* disconnected is eventually removed from the registry.
C35_TerminalEventuallyRemoved ==
    \A g \in GameIds :
        (InGames(g) /\ game[g].status \in Terminal) ~> ~InGames(g)

C37_CompetitorsDistinct ==
    /\ [](\A g \in DOMAIN game : game[g].white.id # game[g].black.id)
    /\ [][\A s \in Ids :
            (/\ last'.op = "findMatch" /\ last'.id = s
             /\ TicketsOf(waitingPlayers, s) > 0
             /\ Len(games') > Len(games))
                => LET gm == game'[games'[Len(games')]]
                   IN  /\ s \in {gm.white.id, gm.black.id}
                       /\ \E o \in Ids \ {s} : o \in {gm.white.id, gm.black.id}
                       /\ TicketsOf(waitingPlayers', s) = 0]_vars

\* s1, whose own ticket was queued before s3's, has sent findMatch again and
\* was paired with s3
C37_Witness ==
    /\ last.op = "findMatch" /\ last.id = "s1"
    /\ games = <<"g1">>
    /\ {game["g1"].white.id, game["g1"].black.id} = {"s1", "s3"}
    /\ Len(waitingPlayers) = 1 /\ waitingPlayers[1].id = "s2"

\* the playing sessions of the registry in which identity s is white or black
PlayingSessionsOf(s) ==
    {g \in DOMAIN game :
        InGames(g) /\ game[g].status = "playing" /\ IsCompetitor(game[g], s)}

\* C38: no identity is white or black of two playing sessions at a time, and
\* a findMatch of an identity that is white or black of a playing session
\* adds no ticket to the queue and creates no session.
C38_OnePlayingSessionPerIdentity ==
    /\ [](\A s \in Ids : Cardinality(PlayingSessionsOf(s)) <= 1)
    /\ [][\A s \in Ids :
            (last'.op = "findMatch" /\ last'.id = s /\ PlayingSessionsOf(s) # {})
                => /\ waitingPlayers' = waitingPlayers
                   /\ games' = games]_vars

\* C39: with clients that use the useSocket hook, the socket of a competitor
\* of a playing session stays open and registered and no grace timer is
\* started for it: the server runs no disconnect handling for a client that
\* is still playing.
C39_HookKeepsConnection ==
    [][\A s \in Ids, g \in DOMAIN game :
          (/\ InGames(g) /\ game[g].status = "playing"
           /\ IsCompetitor(game[g], s) /\ sockets[s] = "open")
              => /\ sockets'[s] = "open"
                 /\ s \in DOMAIN players => s \in DOMAIN players'
                 /\ \A tm \in timers' \ timers : tm.id # s]_vars

\* the indices of the tickets of queue whose identity is registered, at this
\* moment, with a rating within tol of rating
EligibleNow(queue, rating, tol) ==
    {i \in 1..Len(queue) : Abs(players[queue[i].id].rating - rating) <= tol}

\* C40: a findMatch (with no ratingRange or a non-zero one) decides on the
\* ratings that the waiting identities are registered with at that moment:
\* it pairs the caller with the earliest ticket whose identity's registered
\* rating is within the tolerance, and queues the caller when there is none.
C40_PairingUsesRegisteredRating ==
    [][\A s \in Ids, preferences \in RangeInputs \ {<<0>>}, coin \in BOOLEAN :
          (FindMatch(s, preferences, coin) /\ s \in DOMAIN players)
              => LET queue == TicketsOfOthers(waitingPlayers, s)
                     E == EligibleNow(queue, players[s].rating, Tolerance(preferences))
                 IN  IF E = {}
                     THEN games' = games
                     ELSE LET first == CHOOSE i \in E : \A j \in E : i <= j
                              gm == game'[games'[Len(games')]]
                          IN  /\ Len(games') = Len(games) + 1
                              /\ {gm.white.id, gm.black.id} = {s, queue[first].id}]_vars

====
